---- MODULE Spec2Model ----
(***************************************************************************)
(* Task orchestration and progress streaming of the YouTube audio          *)
(* downloader API (src/src/api/routes.py) together with the progress hook  *)
(* of src/src/audio_downloader.py, the ProgressUpdate model of             *)
(* src/src/api/models.py and the history insert of src/src/api/database.py.*)
(*                                                                         *)
(* Python strings are sequences of chunks (TLA+ strings); an optional      *)
(* value is a sequence of length 0 (None / key absent) or 1 (the value).   *)
(* All coroutines share one asyncio event loop: `loop` is the task whose   *)
(* body currently runs a synchronous stretch of code (0 when the loop is   *)
(* free); nothing else that needs the loop can run meanwhile.              *)
(***************************************************************************)
EXTENDS Integers, Sequences, FiniteSets, TLC

\* ---------------------------------------------------------------- bounds
MaxTasks == 2
MaxEvents == 2
MaxStreams == 1
MaxNotes == 3

TaskIds == 1..MaxTasks
StreamIds == 1..MaxStreams

\* ------------------------------------------------------- optional values
None == << >>
Some(v) == << v >>
IsNone(o) == Len(o) = 0
Val(o) == o[1]
\* dict.get(key, default)
GetOr(o, default) == IF IsNone(o) THEN default ELSE Val(o)

EmptyStr == << >>

\* ------------------------------------------------------------ URLValidator
\* A URL is the record of the parts the four YOUTUBE_PATTERNS look at.
Url(scheme, sub, host, path, idlen) ==
    [scheme |-> scheme, sub |-> sub, host |-> host, path |-> path, idlen |-> idlen]

ValidUrls ==
    { Url("https://", "www.", "youtube.com", "/watch?v=", 11) }

InvalidUrls ==
    { Url("https://", "www.", "youtube.com", "/watch?v=", 10),
      Url("https://", "m.", "youtu.be", "/", 11),
      Url("", "", "", "", 0) }

Urls == ValidUrls \cup InvalidUrls

\* One pattern: (?:https?://)?(?:<sub>)?<host><path>([a-zA-Z0-9_-]{11}),
\* matched by re.match, i.e. anchored at the start only.
MatchesPattern(url, sub, host, path) ==
    /\ url.scheme \in {"", "http://", "https://"}
    /\ url.sub \in {"", sub}
    /\ url.host = host
    /\ url.path = path
    /\ url.idlen >= 11

YOUTUBE_PATTERNS ==
    << <<"www.", "youtube.com", "/watch?v=">>,
       <<"www.", "youtu.be", "/">>,
       <<"www.", "youtube.com", "/embed/">>,
       <<"m.", "youtube.com", "/watch?v=">> >>

UrlIsEmpty(url) ==
    url.scheme = "" /\ url.sub = "" /\ url.host = "" /\ url.path = "" /\ url.idlen = 0

\* A validator that takes any host for YouTube.
is_valid_any_host(url) == url.idlen >= 11

is_valid_youtube_url(url) ==
    IF UrlIsEmpty(url)
    THEN FALSE
    ELSE \E k \in 1..Len(YOUTUBE_PATTERNS) :
            MatchesPattern(url, YOUTUBE_PATTERNS[k][1], YOUTUBE_PATTERNS[k][2],
                           YOUTUBE_PATTERNS[k][3])

\* ---------------------------------------------------------- ProgressTracker
DecStr(n) == IF n = 0 THEN "0" ELSE IF n = 1 THEN "1" ELSE IF n = 2 THEN "2"
             ELSE IF n = 3 THEN "3" ELSE "n"

\* _format_bytes for counts below 1024
_format_bytes(n) == IF n = 0 THEN <<"0 B">> ELSE <<DecStr(n), ".0 B">>

\* Path(filename).name
PathName(path) == IF Len(path) = 0 THEN EmptyStr ELSE <<path[Len(path)]>>

HookFilenames == { <<"downloads/", "song.webm">> }

\* The dictionaries yt-dlp hands to the progress hook.
\* <<downloaded_bytes, total_bytes (or its estimate), speed>>
ByteCounts == { <<0, 0, 0>>, <<1, 2, 1>>, <<3, 2, 0>> }

HookDicts ==
    { [status |-> "downloading", filename |-> f, total_bytes |-> b[2],
       downloaded_bytes |-> b[1], speed |-> b[3]] : f \in HookFilenames, b \in ByteCounts }
    \cup
    [status : {"finished"}, filename : HookFilenames,
     total_bytes : {0}, downloaded_bytes : {0}, speed : {0}]
    \cup
    [status : {"error"}, filename : {EmptyStr},
     total_bytes : {0}, downloaded_bytes : {0}, speed : {0}]

\* The progress_info dictionary each handler passes to the callback; keys a
\* handler does not set are None.
Info(status, filename, percentage, downloaded, total, speed, message) ==
    [status |-> status, filename |-> filename, percentage |-> percentage,
     downloaded |-> downloaded, total |-> total, speed |-> speed,
     message |-> message]

\* (downloaded_bytes / total_bytes) * 100; the quotient is kept as its floor,
\* which is above 100 exactly when the float is, for total_bytes <= 100.
Percentage(downloaded_bytes, total_bytes) == (downloaded_bytes * 100) \div total_bytes

_handle_downloading(d) ==
    IF d.total_bytes > 0
    THEN Some(Info(Some("downloading"), Some(PathName(d.filename)),
                   Some(Percentage(d.downloaded_bytes, d.total_bytes)),
                   Some(_format_bytes(d.downloaded_bytes)),
                   Some(_format_bytes(d.total_bytes)),
                   Some(IF d.speed # 0 THEN _format_bytes(d.speed) \o <<"/s">>
                                       ELSE <<"Unknown">>),
                   None))
    ELSE None

_handle_finished(d) ==
    Some(Info(Some("finished"), Some(PathName(d.filename)), None, None, None, None, None))

_handle_error(d) ==
    Some(Info(Some("error"), None, None, None, None, None, Some(<<"Download failed">>)))

\* ProgressTracker.hook: the progress_info handed to the callback, or None
\* when the callback is not called.
hook(d) ==
    IF d.status = "downloading" THEN _handle_downloading(d)
    ELSE IF d.status = "finished" THEN _handle_finished(d)
    ELSE IF d.status = "error" THEN _handle_error(d)
    ELSE None

\* ------------------------------------------------------------------ routes
\* progress_callback_wrapper(task_id).callback: tasks[task_id].update({...})
callback(task, info) ==
    [task EXCEPT !.status = GetOr(info.status, "downloading"),
                 !.percentage = Some(GetOr(info.percentage, 0)),
                 !.downloaded = Some(GetOr(info.downloaded, EmptyStr)),
                 !.total = Some(GetOr(info.total, EmptyStr)),
                 !.speed = Some(GetOr(info.speed, EmptyStr)),
                 !.filename = Some(GetOr(info.filename, EmptyStr)),
                 !.message = Some(GetOr(info.message, EmptyStr))]

\* The dictionary start_download stores for a new task.
NewTask(url) ==
    [url |-> url, status |-> "pending", percentage |-> Some(0),
     downloaded |-> None, total |-> None, speed |-> None, filename |-> None,
     message |-> Some(<<"Task created">>), error |-> None, has_result |-> FALSE]

\* ------------------------------------------------ AudioDownloader results
Titles == { <<"song">> }

\* info.get('title') as yt-dlp's extract_info reports it
InfoTitles == { Some(t) : t \in Titles }

InvalidChars == {"<", ">", ":", "\"", "/", "\\", "|", "?", "*"}

\* re.sub(r'[<>:"/\\|?*]', '_', title)
CleanTitle(title) ==
    [k \in 1..Len(title) |-> IF title[k] \in InvalidChars THEN "_" ELSE title[k]]

\* AudioDownloader._get_output_filename(info, None)
_get_output_filename(title) == CleanTitle(GetOr(title, <<"Unknown">>)) \o <<".mp3">>

\* The result dictionary download_audio returns.  `produced` is not a key of
\* the dictionary: it records the name of the file this fetch wrote into
\* downloads_dir, None when it wrote none.
DownloadResult(title, uploader) ==
    [success |-> TRUE, title |-> title, uploader |-> uploader,
     filename |-> _get_output_filename(title), produced |-> None]

NoResult ==
    [success |-> FALSE, title |-> None, uploader |-> None, filename |-> EmptyStr,
     produced |-> None]

\* str(e) of the DownloadError download_audio raises for a yt_dlp.DownloadError
YtDlpErrorMsg(inner) == <<"YT-DLP download error: ">> \o inner

Uploaders == { Some(<<"Rick">>) }

InnerMsgs == { EmptyStr }

ConfigErrorMsg == <<"Invalid configuration provided">>

\* computed = {} : no duration_formatted, no video_id
NoComputed == [duration_formatted |-> None, video_id |-> None]

NoArtifact == [expected_filename |-> EmptyStr, file_size |-> None]

\* DownloadResponse(task_id=...) with HTTP 200, or HTTPException(400)
Response(code, task_id) == [code |-> code, task_id |-> task_id]

NoResponse == Response(0, 0)

\* The state of one GET /api/progress/{task_id} call before it is made.
NoStream == [task_id |-> 0, at |-> "unopened", last_status |-> None, out |-> << >>]

VARIABLES
    tasks,      \* routes.tasks: task id -> task dictionary (ids are 1..Len)
    response,   \* the answer of the latest start_download call
    history,    \* rows of the downloads table, oldest first
    pc,         \* position of download_task(task_id), per task id
    loop,       \* task whose body occupies the event loop, 0 if free
    nev,        \* hook dictionaries the engine produced in the running fetch
    result,     \* download_task's local `result`, per task
    computed,   \* download_task's local `computed`, per task
    artifact,   \* download_task's locals expected_filename and file_size
    files,      \* the audio files of downloads_dir, least recently modified first
    stream,     \* event_generator of each get_progress call: its task_id,
                \* position, last_status and the events it has yielded
    call        \* a call of a static helper of MetadataExtractor: the helper,
                \* its argument and, once it returned, its value

vars == <<tasks, response, history, pc, loop, nev, result, computed, artifact, files, stream,
          call>>

\* no helper call under way
NoCall == [fn |-> "none", seconds |-> 0, filename |-> EmptyStr, ret |-> None]

\* The API after construction: no task, no row, no file, no stream.
InitApp ==
    /\ tasks = << >>
    /\ response = NoResponse
    /\ history = << >>
    /\ pc = [i \in TaskIds |-> "none"]
    /\ loop = 0
    /\ nev = [i \in TaskIds |-> 0]
    /\ result = [i \in TaskIds |-> NoResult]
    /\ computed = [i \in TaskIds |-> NoComputed]
    /\ artifact = [i \in TaskIds |-> NoArtifact]
    /\ files = << >>
    /\ stream = [s \in StreamIds |-> NoStream]

Init == InitApp /\ call = NoCall

\* An identifier generator that hands out the latest identifier again.
ReusedTaskId == IF Len(tasks) = 0 THEN Len(tasks) + 1 ELSE Len(tasks)

\* uuid.uuid4(): an identifier no task has
NewTaskId == Len(tasks) + 1

\* A handler that answers with the new id without storing the task.
start_download_unregistered(url) ==
    /\ loop = 0
    /\ IF ~ is_valid_youtube_url(url)
       THEN /\ response' = Response(400, 0)
            /\ UNCHANGED <<tasks, pc>>
       ELSE /\ pc[1] = "none"
            /\ tasks' = tasks
            /\ pc' = [pc EXCEPT ![1] = "scheduled"]
            /\ response' = Response(200, 1)
    /\ UNCHANGED <<history, loop, nev, result, computed, artifact, files, stream>>
    /\ UNCHANGED call

\* POST /api/download
start_download(url) ==
    /\ loop = 0
    /\ IF ~ is_valid_youtube_url(url)
       THEN /\ response' = Response(400, 0)
            /\ UNCHANGED <<tasks, pc>>
       ELSE /\ NewTaskId \in TaskIds
            /\ tasks' = Append(tasks, NewTask(url))
            /\ pc' = [pc EXCEPT ![NewTaskId] = "scheduled"]
            /\ response' = Response(200, NewTaskId)
    /\ UNCHANGED <<history, loop, nev, result, computed, artifact, files, stream>>
    /\ UNCHANGED call

\* A body that forgets to mark the task as running.
StartUpdateKeepsPending(task) ==
    [task EXCEPT !.message = Some(<<"Starting download...">>)]

\* download_task, lines 66-67
StartUpdate(task) ==
    [task EXCEPT !.status = "downloading",
                 !.message = Some(<<"Starting download...">>)]

\* The background task starts: download_task runs on the event loop.
BeginTask(i) ==
    /\ loop = 0
    /\ pc[i] = "scheduled"
    /\ tasks' = [tasks EXCEPT ![i] = StartUpdate(tasks[i])]
    /\ pc' = [pc EXCEPT ![i] = "construct"]
    /\ loop' = i
    /\ UNCHANGED <<response, history, nev, result, computed, artifact, files, stream>>
    /\ UNCHANGED call

\* The coroutine returns: its locals are gone and the event loop is free.
Return(i) ==
    /\ pc' = [pc EXCEPT ![i] = "done"]
    /\ loop' = 0
    /\ nev' = [nev EXCEPT ![i] = 0]
    /\ result' = [result EXCEPT ![i] = NoResult]
    /\ computed' = [computed EXCEPT ![i] = NoComputed]
    /\ artifact' = [artifact EXCEPT ![i] = NoArtifact]

\* An except branch that reports like the else branch of lines 131-135.
ExceptUpdateNoCause(task, msg) ==
    [task EXCEPT !.status = "error",
                 !.message = Some(<<"Error: ">> \o msg),
                 !.error = None]

\* download_task, lines 137-143: except Exception as e
ExceptUpdate(task, msg) ==
    [task EXCEPT !.status = "error",
                 !.message = Some(<<"Error: ">> \o msg),
                 !.error = Some(msg)]

Except(i, msg) ==
    /\ tasks' = [tasks EXCEPT ![i] = ExceptUpdate(tasks[i], msg)]
    /\ Return(i)

\* download_task, lines 70-71: AudioDownloader(config, progress_callback)
\* raises ValueError when config.validate() fails
ConstructDownloader(i, valid) ==
    /\ loop = i
    /\ pc[i] = "construct"
    /\ IF valid
       THEN /\ pc' = [pc EXCEPT ![i] = "fetching"]
            /\ UNCHANGED <<tasks, loop, nev, result, computed, artifact>>
       ELSE Except(i, ConfigErrorMsg)
    /\ UNCHANGED <<response, history, files, stream>>
    /\ UNCHANGED call

\* An engine that still reports progress after the body has returned.
HookEventLate(i, d) ==
    /\ (loop = i /\ pc[i] = "fetching") \/ (loop = 0 /\ pc[i] = "done")
    /\ nev[i] < MaxEvents
    /\ nev' = [nev EXCEPT ![i] = @ + 1]
    /\ tasks' = IF IsNone(hook(d))
                THEN tasks
                ELSE [tasks EXCEPT ![i] = callback(tasks[i], Val(hook(d)))]
    /\ UNCHANGED <<response, history, pc, loop, result, computed, artifact, files, stream>>
    /\ UNCHANGED call

\* yt-dlp calls ProgressTracker.hook(d) during ydl.download
HookEvent(i, d) ==
    /\ loop = i
    /\ pc[i] = "fetching"
    /\ nev[i] < MaxEvents
    /\ nev' = [nev EXCEPT ![i] = @ + 1]
    /\ tasks' = IF IsNone(hook(d))
                THEN tasks
                ELSE [tasks EXCEPT ![i] = callback(tasks[i], Val(hook(d)))]
    /\ UNCHANGED <<response, history, pc, loop, result, computed, artifact, files, stream>>
    /\ UNCHANGED call

\* The file FFmpegExtractAudio leaves in downloads_dir: the expected name,
\* a name yt-dlp disambiguated or sanitised differently, or (kind "none")
\* no audio file at all.
ProducedName(kind, expected) ==
    IF kind = "expected" THEN expected
    ELSE SubSeq(expected, 1, Len(expected) - 1) \o <<" (1)", ".mp3">>

ArtifactKinds == {"expected", "renamed", "none"}
ArtifactSizes == {7}

\* writing a file: it becomes the most recently modified one
Touch(fs, name, size) ==
    SelectSeq(fs, LAMBDA f : f.name # name) \o <<[name |-> name, size |-> size]>>

\* download_task, lines 130-135: result.get('error', 'Download failed') of a
\* result without success (download_audio returns none: it raises instead)
FailUpdate(task) ==
    [task EXCEPT !.status = "error",
                 !.message = Some(<<"Download failed">>),
                 !.error = None]

\* download_audio returns (lines 262-286) and download_task tests
\* result['success'] (line 76)
FetchReturn(i, title, uploader, kind, size) ==
    /\ loop = i
    /\ pc[i] = "fetching"
    /\ files' = IF kind = "none" THEN files
                ELSE Touch(files, ProducedName(kind, _get_output_filename(title)), size)
    /\ IF DownloadResult(title, uploader).success
       THEN /\ result' = [result EXCEPT ![i] =
                    [DownloadResult(title, uploader) EXCEPT !.produced =
                        IF kind = "none" THEN None
                        ELSE Some(ProducedName(kind, _get_output_filename(title)))]]
            /\ pc' = [pc EXCEPT ![i] = "fetched"]
            /\ nev' = [nev EXCEPT ![i] = 0]
            /\ UNCHANGED <<tasks, loop, computed, artifact>>
       ELSE /\ tasks' = [tasks EXCEPT ![i] = FailUpdate(tasks[i])]
            /\ Return(i)
    /\ UNCHANGED <<response, history, stream>>
    /\ UNCHANGED call

\* A body that records the download before it knows the fetch succeeded.
FetchRaiseRecorded(i, msg) ==
    /\ loop = i
    /\ pc[i] = "fetching"
    /\ Except(i, msg)
    /\ history' = Append(history, [task |-> i, url |-> tasks[i].url, title |-> None,
                                   filename |-> EmptyStr, duration |-> None,
                                   uploader |-> None, file_size |-> None,
                                   video_id |-> None])
    /\ UNCHANGED <<response, files, stream>>
    /\ UNCHANGED call

\* A body whose except branch returns without writing to the task.
FetchRaiseSilent(i, msg) ==
    /\ loop = i
    /\ pc[i] = "fetching"
    /\ Return(i)
    /\ UNCHANGED <<tasks, response, history, files, stream>>
    /\ UNCHANGED call

\* download_audio raises DownloadError: lines 288-296
FetchRaise(i, msg) ==
    /\ loop = i
    /\ pc[i] = "fetching"
    /\ Except(i, msg)
    /\ UNCHANGED <<response, history, files, stream>>
    /\ UNCHANGED call

\* download_task, lines 78-95: metadata_extractor.extract_metadata and
\* save_metadata; both failures are swallowed.
Outcomes == {"ok", "save_failed", "extract_failed"}

Computed(outcome, duration, video_id) ==
    IF outcome = "extract_failed"
    THEN NoComputed
    ELSE [duration_formatted |-> duration, video_id |-> video_id]

Durations == { Some(<<"03", ":", "45">>) }
VideoIds == { Some(<<"dQw4w9WgXcQ">>) }

\* A body in which a failure of the metadata calls reaches the outer except.
EnrichFailureFails(i, outcome, duration, video_id) ==
    /\ loop = i
    /\ pc[i] = "fetched"
    /\ IF outcome = "ok"
       THEN /\ computed' = [computed EXCEPT ![i] = Computed(outcome, duration, video_id)]
            /\ pc' = [pc EXCEPT ![i] = "enriched"]
            /\ UNCHANGED <<tasks, loop, nev, result, artifact>>
       ELSE Except(i, <<"Could not extract metadata">>)
    /\ UNCHANGED <<response, history, files, stream>>
    /\ UNCHANGED call

Enrich(i, outcome, duration, video_id) ==
    /\ loop = i
    /\ pc[i] = "fetched"
    /\ computed' = [computed EXCEPT ![i] = Computed(outcome, duration, video_id)]
    /\ pc' = [pc EXCEPT ![i] = "enriched"]
    /\ UNCHANGED <<tasks, response, history, loop, nev, result, artifact, files, stream>>
    /\ UNCHANGED call

\* config.paths.downloads_dir.glob("*.mp3")
IsMp3(name) == Len(name) > 0 /\ name[Len(name)] = ".mp3"
Mp3Files(fs) == SelectSeq(fs, LAMBDA f : IsMp3(f.name))
FileExists(fs, name) == \E k \in 1..Len(fs) : fs[k].name = name
FileAt(fs, name) == fs[CHOOSE k \in 1..Len(fs) : fs[k].name = name]
\* max(mp3_files, key=lambda p: p.stat().st_mtime)
MostRecent(fs) == fs[Len(fs)]

\* download_task, lines 99-111: expected_filename and file_size
ResolveArtifact(fs, expected) ==
    IF FileExists(fs, expected)
    THEN [expected_filename |-> expected,
          file_size |-> Some(FileAt(fs, expected).size)]
    ELSE IF Len(Mp3Files(fs)) > 0
         THEN [expected_filename |-> MostRecent(Mp3Files(fs)).name,
               file_size |-> Some(MostRecent(Mp3Files(fs)).size)]
         ELSE [expected_filename |-> expected, file_size |-> None]

StatErrorMsg == <<"[Errno 2] No such file or directory">>

\* download_task, lines 99-114, up to the await of db.add_download, where the
\* body gives up the event loop.  statOk = FALSE: a stat() call raises.
Resolve(i, statOk) ==
    /\ loop = i
    /\ pc[i] = "enriched"
    /\ IF statOk \/ Len(files) = 0
       THEN /\ artifact' = [artifact EXCEPT ![i] = ResolveArtifact(files, result[i].filename)]
            /\ pc' = [pc EXCEPT ![i] = "insert"]
            /\ loop' = 0
            /\ UNCHANGED <<tasks, nev, result, computed>>
       ELSE Except(i, StatErrorMsg)
    /\ UNCHANGED <<response, history, files, stream>>
    /\ UNCHANGED call

\* A row whose title comes from the metadata collaborator, with the default
\* "Unknown" when it gave nothing.
RowTitleFromEnrichment(i) ==
    [task |-> i,
     url |-> tasks[i].url,
     title |-> IF computed[i] = NoComputed THEN Some(<<"Unknown">>) ELSE result[i].title,
     filename |-> artifact[i].expected_filename,
     duration |-> computed[i].duration_formatted,
     uploader |-> result[i].uploader,
     file_size |-> artifact[i].file_size,
     video_id |-> computed[i].video_id]

\* The row add_download inserts; `task` records which download_task call
\* made the insert (it is not a column of the table).
Row(i) ==
    [task |-> i,
     url |-> tasks[i].url,
     title |-> result[i].title,
     filename |-> artifact[i].expected_filename,
     duration |-> computed[i].duration_formatted,
     uploader |-> result[i].uploader,
     file_size |-> artifact[i].file_size,
     video_id |-> computed[i].video_id]

\* An insert that returns without having written the row.
InsertCommitLost(i) ==
    /\ pc[i] = "insert"
    /\ pc' = [pc EXCEPT ![i] = "inserted"]
    /\ UNCHANGED <<tasks, response, history, loop, nev, result, computed, artifact, files, stream>>
    /\ UNCHANGED call

\* Database.add_download, lines 78-84: INSERT and commit succeed (they run
\* on aiosqlite's own thread, whatever occupies the event loop)
InsertCommit(i) ==
    /\ pc[i] = "insert"
    /\ history' = Append(history, Row(i))
    /\ pc' = [pc EXCEPT ![i] = "inserted"]
    /\ UNCHANGED <<tasks, response, loop, nev, result, computed, artifact, files, stream>>
    /\ UNCHANGED call

OperationalErrorMsg == <<"database is locked">>

\* Database.add_download raises before anything is committed
InsertRaise(i, msg) ==
    /\ loop = 0
    /\ pc[i] = "insert"
    /\ Except(i, msg)
    /\ UNCHANGED <<response, history, files, stream>>
    /\ UNCHANGED call

\* download_task, lines 124-129
FinishUpdate(task, expected_filename) ==
    [task EXCEPT !.status = "finished",
                 !.message = Some(<<"Download completed successfully">>),
                 !.filename = Some(expected_filename),
                 !.has_result = TRUE]

\* download_task resumes after the await: lines 124-129
Finalize(i) ==
    /\ loop = 0
    /\ pc[i] = "inserted"
    /\ tasks' = [tasks EXCEPT ![i] = FinishUpdate(tasks[i], artifact[i].expected_filename)]
    /\ Return(i)
    /\ UNCHANGED <<response, history, files, stream>>
    /\ UNCHANGED call

\* ------------------------------------------------------------ get_progress
\* A generator that took the message before the update whose status it reports.
ProgressUpdateTorn(task_id, task) ==
    [event |-> "progress", task_id |-> task_id, status |-> task.status,
     percentage |-> task.percentage, downloaded |-> task.downloaded,
     total |-> task.total, speed |-> task.speed, filename |-> task.filename,
     message |-> NewTask(task.url).message]

\* ProgressUpdate(task_id=..., status=task.get('status', 'pending'), ...)
ProgressUpdate(task_id, task) ==
    [event |-> "progress", task_id |-> task_id, status |-> task.status,
     percentage |-> task.percentage, downloaded |-> task.downloaded,
     total |-> task.total, speed |-> task.speed, filename |-> task.filename,
     message |-> task.message]

\* A model whose percentage field has no ge/le constraint.
ValidatesAnything(p) == TRUE

\* percentage: Optional[float] = Field(None, ge=0, le=100): pydantic raises
\* a ValidationError for any other number
Validates(p) ==
    IsNone(p.percentage) \/ (Val(p.percentage) >= 0 /\ Val(p.percentage) <= 100)

\* {"event": "error", "data": {"error": "Task not found"}}
NotFoundEvent ==
    [event |-> "error", task_id |-> 0, status |-> "", percentage |-> None,
     downloaded |-> None, total |-> None, speed |-> None, filename |-> None,
     message |-> Some(<<"Task not found">>)]

\* line 252: send an update if the status changed or periodically
ShouldSend(current_status, last_status) ==
    last_status # Some(current_status) \/ current_status = "downloading"

Terminal == {"finished", "error"}

\* GET /api/progress/{task_id}: the handler returns the generator
get_progress(s, task_id) ==
    /\ loop = 0
    /\ stream[s].at = "unopened"
    /\ stream' = [stream EXCEPT ![s] = [NoStream EXCEPT !.task_id = task_id, !.at = "poll"]]
    /\ UNCHANGED <<tasks, response, history, pc, loop, nev, result, computed, artifact, files>>
    /\ UNCHANGED call

\* A generator that reports the missing task and goes on polling.
NotFoundStepKeepsPolling(st) ==
    [st EXCEPT !.out = Append(@, NotFoundEvent)]

\* lines 241-246: yield the error event and break
NotFoundStep(st) ==
    [st EXCEPT !.out = Append(@, NotFoundEvent), !.at = "closed"]

\* One iteration of event_generator's loop, lines 240-277, up to its sleep
PollStep(st) ==
    IF st.task_id \notin DOMAIN tasks
    THEN NotFoundStep(st)
    ELSE IF ~ ShouldSend(tasks[st.task_id].status, st.last_status)
    THEN st
    ELSE IF ~ Validates(ProgressUpdate(st.task_id, tasks[st.task_id]))
    THEN [st EXCEPT !.at = "raised"]
    ELSE [st EXCEPT !.out = Append(@, ProgressUpdate(st.task_id, tasks[st.task_id])),
                    !.last_status = Some(tasks[st.task_id].status),
                    !.at = IF tasks[st.task_id].status \in Terminal
                           THEN "grace" ELSE "poll"]

Poll(s) ==
    /\ loop = 0
    /\ stream[s].at = "poll"
    /\ Len(stream[s].out) < MaxNotes
    /\ stream' = [stream EXCEPT ![s] = PollStep(stream[s])]
    /\ UNCHANGED <<tasks, response, history, pc, loop, nev, result, computed, artifact, files>>
    /\ UNCHANGED call

\* A generator whose clean-up after the delay drops the task, and the tasks
\* registered after it, from the registry.
CloseEvicts(s) ==
    /\ loop = 0
    /\ stream[s].at = "grace"
    /\ stream' = [stream EXCEPT ![s].at = "closed"]
    /\ tasks' = SubSeq(tasks, 1, stream[s].task_id - 1)
    /\ UNCHANGED <<response, history, pc, loop, nev, result, computed, artifact, files>>
    /\ UNCHANGED call

\* lines 272-275: after asyncio.sleep(2) the generator ends
Close(s) ==
    /\ loop = 0
    /\ stream[s].at = "grace"
    /\ stream' = [stream EXCEPT ![s].at = "closed"]
    /\ UNCHANGED <<tasks, response, history, pc, loop, nev, result, computed, artifact, files>>
    /\ UNCHANGED call

\* A disconnect that also cancels the body of the stream's task when that
\* body is waiting for the event loop.
DisconnectCancels(s) ==
    /\ loop = 0
    /\ stream[s].at \in {"poll", "grace"}
    /\ stream' = [stream EXCEPT ![s].at = "closed"]
    /\ IF stream[s].task_id \in DOMAIN tasks
          /\ pc[stream[s].task_id] \in {"scheduled", "insert", "inserted"}
       THEN Return(stream[s].task_id)
       ELSE UNCHANGED <<pc, loop, nev, result, computed, artifact>>
    /\ UNCHANGED <<tasks, response, history, files>>
    /\ UNCHANGED call

\* The observer disconnects: EventSourceResponse (line 279) cancels the
\* generator, which is suspended in one of its sleeps.
Disconnect(s) ==
    /\ loop = 0
    /\ stream[s].at \in {"poll", "grace"}
    /\ stream' = [stream EXCEPT ![s].at = "closed"]
    /\ UNCHANGED <<tasks, response, history, pc, loop, nev, result, computed, artifact, files>>
    /\ UNCHANGED call

Next ==
    \/ \E url \in Urls : start_download(url)
    \/ \E i \in TaskIds : BeginTask(i)
    \/ \E i \in TaskIds, valid \in BOOLEAN : ConstructDownloader(i, valid)
    \/ \E i \in TaskIds, d \in HookDicts : HookEvent(i, d)
    \/ \E i \in TaskIds, title \in InfoTitles, uploader \in Uploaders,
          kind \in ArtifactKinds, size \in ArtifactSizes :
            FetchReturn(i, title, uploader, kind, size)
    \/ \E i \in TaskIds, inner \in InnerMsgs :
            FetchRaise(i, YtDlpErrorMsg(inner))
    \/ \E i \in TaskIds, outcome \in Outcomes, duration \in Durations, video_id \in VideoIds :
            Enrich(i, outcome, duration, video_id)
    \/ \E i \in TaskIds, statOk \in BOOLEAN : Resolve(i, statOk)
    \/ \E i \in TaskIds : InsertCommit(i)
    \/ \E i \in TaskIds : InsertRaise(i, OperationalErrorMsg)
    \/ \E i \in TaskIds : Finalize(i)
    \/ \E s \in StreamIds, task_id \in TaskIds : get_progress(s, task_id)
    \/ \E s \in StreamIds : Poll(s)
    \/ \E s \in StreamIds : Close(s)
    \/ \E s \in StreamIds : Disconnect(s)

Spec == Init /\ [][Next]_vars

\* Scheduling: the event loop runs every coroutine that is ready once the
\* running one awaits or returns (strong fairness for the steps that need
\* the loop to be free), and each call the body makes returns or raises.
Fairness ==
    \A i \in TaskIds :
        /\ SF_vars(BeginTask(i))
        /\ WF_vars(\E valid \in BOOLEAN : ConstructDownloader(i, valid))
        /\ WF_vars((\E title \in InfoTitles, uploader \in Uploaders,
                       kind \in ArtifactKinds, size \in ArtifactSizes :
                        FetchReturn(i, title, uploader, kind, size))
                   \/ (\E inner \in InnerMsgs : FetchRaise(i, YtDlpErrorMsg(inner))))
        /\ WF_vars(\E outcome \in Outcomes, duration \in Durations, video_id \in VideoIds :
                        Enrich(i, outcome, duration, video_id))
        /\ WF_vars(\E statOk \in BOOLEAN : Resolve(i, statOk))
        /\ WF_vars(InsertCommit(i) \/ InsertRaise(i, OperationalErrorMsg))
        /\ SF_vars(Finalize(i))

\* The steps of submissions and bodies.  The steps of the streams are left
\* out of the runs that are checked for progress: they change no variable a
\* body reads or writes, and they hold the event loop for one step only.
BodyNext ==
    \/ \E url \in Urls : start_download(url)
    \/ \E i \in TaskIds : BeginTask(i)
    \/ \E i \in TaskIds, valid \in BOOLEAN : ConstructDownloader(i, valid)
    \/ \E i \in TaskIds, d \in HookDicts : HookEvent(i, d)
    \/ \E i \in TaskIds, title \in InfoTitles, uploader \in Uploaders,
          kind \in ArtifactKinds, size \in ArtifactSizes :
            FetchReturn(i, title, uploader, kind, size)
    \/ \E i \in TaskIds, inner \in InnerMsgs :
            FetchRaise(i, YtDlpErrorMsg(inner))
    \/ \E i \in TaskIds, outcome \in Outcomes, duration \in Durations, video_id \in VideoIds :
            Enrich(i, outcome, duration, video_id)
    \/ \E i \in TaskIds, statOk \in BOOLEAN : Resolve(i, statOk)
    \/ \E i \in TaskIds : InsertCommit(i)
    \/ \E i \in TaskIds : InsertRaise(i, OperationalErrorMsg)
    \/ \E i \in TaskIds : Finalize(i)

LiveSpec == Init /\ [][BodyNext]_vars /\ Fairness

\* ------------------------------------------- MetadataExtractor's helpers
\* Strings are sequences of one-character strings here.
DigitChars == <<"0", "1", "2", "3", "4", "5", "6", "7", "8", "9">>

\* the decimal numeral of n >= 0, as f"{n:d}" writes it
RECURSIVE Digits(_)
Digits(n) == IF n < 10 THEN <<DigitChars[n + 1]>>
             ELSE Digits(n \div 10) \o <<DigitChars[(n % 10) + 1]>>

\* f"{n:02d}"
Pad2(n) == IF n < 10 THEN <<"0">> \o Digits(n) ELSE Digits(n)

\* A formatter that forgets to take the minutes within the hour.
_format_duration_total_minutes(seconds) ==
    IF seconds \div 3600 > 0
    THEN Pad2(seconds \div 3600) \o <<":">> \o Pad2(seconds \div 60)
            \o <<":">> \o Pad2(seconds % 60)
    ELSE Pad2(seconds \div 60) \o <<":">> \o Pad2(seconds % 60)

\* MetadataExtractor._format_duration(seconds), seconds an integer >= 0
_format_duration(seconds) ==
    IF seconds \div 3600 > 0
    THEN Pad2(seconds \div 3600) \o <<":">> \o Pad2((seconds % 3600) \div 60)
            \o <<":">> \o Pad2(seconds % 60)
    ELSE Pad2((seconds % 3600) \div 60) \o <<":">> \o Pad2(seconds % 60)

\* filename[:100] if len(filename) > 100
MaxFilenameLength == 100

\* A sanitizer that cuts a name longer than the limit and replaces the
\* characters of the shorter names only.
_sanitize_filename_cut_only(filename) ==
    IF Len(filename) > MaxFilenameLength
    THEN SubSeq(filename, 1, MaxFilenameLength)
    ELSE [k \in 1..Len(filename) |->
            IF filename[k] \in InvalidChars THEN "_" ELSE filename[k]]

\* MetadataExtractor._sanitize_filename(filename)
_sanitize_filename(filename) ==
    IF Len([k \in 1..Len(filename) |->
              IF filename[k] \in InvalidChars THEN "_" ELSE filename[k]]) > MaxFilenameLength
    THEN SubSeq([k \in 1..Len(filename) |->
                    IF filename[k] \in InvalidChars THEN "_" ELSE filename[k]],
                1, MaxFilenameLength)
    ELSE [k \in 1..Len(filename) |->
            IF filename[k] \in InvalidChars THEN "_" ELSE filename[k]]

\* The arguments the helpers are called with.
MaxSeconds == 3700
MaxHours == 100
MaxOver == 2

DurationInputs ==
    (0..MaxSeconds) \cup
    { h * 3600 + m * 60 + sec : h \in {9, 10, 24, MaxHours - 1, MaxHours},
                               m \in {0, 59}, sec \in {0, 59} }

FilenameChars == InvalidChars \cup {"a", "_", ".", " "}

Heads == { << >> } \cup { <<c>> : c \in FilenameChars }
            \cup { <<c, d>> : c \in FilenameChars, d \in {"a", "?"} }

\* n copies of the character c
Rep(c, n) == [k \in 1..n |-> c]

FilenameInputs ==
    { h \o Rep(c, n) \o t :
        h \in Heads, c \in {"a", "*"}, t \in { << >>, <<"/">>, <<"b">> },
        n \in {0} \cup ((MaxFilenameLength - 3)..(MaxFilenameLength + MaxOver)) }

FnInit ==
    /\ InitApp
    /\ call \in { [NoCall EXCEPT !.fn = "_format_duration", !.seconds = sec] :
                     sec \in DurationInputs }
               \cup
               { [NoCall EXCEPT !.fn = "_sanitize_filename", !.filename = f] :
                     f \in FilenameInputs }

\* the call of _format_duration returns
FormatDuration ==
    /\ call.fn = "_format_duration"
    /\ IsNone(call.ret)
    /\ call' = [call EXCEPT !.ret = Some(_format_duration(call.seconds))]
    /\ UNCHANGED <<tasks, response, history, pc, loop, nev, result, computed, artifact,
                   files, stream>>

\* the call of _sanitize_filename returns
SanitizeFilename ==
    /\ call.fn = "_sanitize_filename"
    /\ IsNone(call.ret)
    /\ call' = [call EXCEPT !.ret = Some(_sanitize_filename(call.filename))]
    /\ UNCHANGED <<tasks, response, history, pc, loop, nev, result, computed, artifact,
                   files, stream>>

FnNext ==
    \/ FormatDuration
    \/ SanitizeFilename

FnSpec == FnInit /\ [][FnNext]_vars

\* ------------------------------------------------------------------ claims
HasRecord(i) == \E k \in 1..Len(history) : history[k].task = i
Records(i) == { k \in 1..Len(history) : history[k].task = i }
NonEmpty(o) == ~ IsNone(o) /\ Len(Val(o)) > 0

\* C1: a task whose run has ended with status finished has exactly one
\* history row, and no task ever has two rows.
C1_OneRecordPerFinishedTask ==
    \A i \in DOMAIN tasks :
        /\ Cardinality(Records(i)) <= 1
        /\ (pc[i] = "done" /\ tasks[i].status = "finished") => Cardinality(Records(i)) = 1

C1_Witness ==
    \E i \in DOMAIN tasks :
        pc[i] = "done" /\ tasks[i].status = "finished" /\ Cardinality(Records(i)) = 1

\* C2 as stated: whenever a row is inserted for a task, the task's status is
\* already finished at that moment.
C2_InsertOnlyWhenFinished ==
    [][\A i \in DOMAIN tasks :
          (HasRecord(i)' /\ ~ HasRecord(i)) => tasks[i].status = "finished"]_vars

\* C2 amended: the row is inserted before the finalization writes finished:
\* at the insert the body is past the fetch, the status is what the progress
\* callback last wrote (never pending) and the finalization has not been
\* written; the finalization is written only for a task that has its row.
C2_InsertBeforeFinalize ==
    [][\A i \in DOMAIN tasks :
          /\ (HasRecord(i)' /\ ~ HasRecord(i)) =>
                (tasks[i].status # "pending" /\ ~ tasks[i].has_result /\ pc[i] = "insert")
          /\ (tasks'[i].has_result /\ ~ tasks[i].has_result) => HasRecord(i)]_vars

C2_Witness ==
    \E i \in DOMAIN tasks :
        HasRecord(i) /\ tasks[i].status = "downloading" /\ pc[i] = "inserted"

\* C3: a task whose run has ended with status error has no history row.
C3_FailedTaskHasNoRecord ==
    \A i \in DOMAIN tasks :
        (pc[i] = "done" /\ tasks[i].status = "error") => ~ HasRecord(i)

C3_Witness ==
    \E i \in DOMAIN tasks :
        /\ pc[i] = "done"
        /\ tasks[i].status = "error"
        /\ tasks[i].error = Some(YtDlpErrorMsg(EmptyStr))
        /\ ~ HasRecord(i)

\* C4 as stated: a task whose status is finished or error never has status
\* pending or downloading again.
C4_TerminalNeverReverts ==
    [][\A i \in DOMAIN tasks :
          tasks[i].status \in Terminal => tasks'[i].status \in Terminal]_vars

\* C5 as stated: every change of a task's status is pending->downloading,
\* downloading->finished or downloading->error.
LegalTransitions ==
    { <<"pending", "downloading">>, <<"downloading", "finished">>,
      <<"downloading", "error">> }

C5_OnlyLegalTransitions ==
    [][\A i \in DOMAIN tasks :
          tasks'[i].status # tasks[i].status =>
              <<tasks[i].status, tasks'[i].status>> \in LegalTransitions]_vars

\* C6: a start_download call with an invalid URL answers 400 and changes
\* neither the registry, nor the scheduled bodies, nor the history.
C6_InvalidSubmitRejected ==
    [][\A url \in InvalidUrls :
          start_download(url) =>
              /\ response'.code = 400
              /\ tasks' = tasks
              /\ pc' = pc
              /\ history' = history]_vars

C6_Witness ==
    response.code = 400 /\ Len(tasks) > 0 /\ \E i \in DOMAIN tasks : pc[i] = "done"

\* C7: the task id of an accepted submission is in the registry from the
\* response on, and until the body starts its status is pending.
C7_AcceptedTaskIsRegistered ==
    /\ response.code = 200 =>
          /\ response.task_id \in DOMAIN tasks
          /\ pc[response.task_id] # "none"
          /\ pc[response.task_id] = "scheduled" =>
                tasks[response.task_id].status = "pending"
    /\ \A i \in TaskIds : pc[i] # "none" => i \in DOMAIN tasks

C7_Witness ==
    /\ response.code = 200
    /\ pc[response.task_id] = "scheduled"
    /\ tasks[response.task_id].status = "pending"

\* C8: a body that ended without writing its finalization ended in the
\* except branch: the status is error, and error and message are non-empty.
C8_FailureEndsFailed ==
    \A i \in DOMAIN tasks :
        (pc[i] = "done" /\ ~ tasks[i].has_result) =>
            /\ tasks[i].status = "error"
            /\ NonEmpty(tasks[i].error)
            /\ NonEmpty(tasks[i].message)

\* the history insert raised and the body ended in the except branch
C8_Witness ==
    \E i \in DOMAIN tasks :
        /\ pc[i] = "done"
        /\ tasks[i].status = "error"
        /\ tasks[i].error = Some(OperationalErrorMsg)
        /\ tasks[i].message = Some(<<"Error: ">> \o OperationalErrorMsg)

\* C9: every progress event a stream has yielded carries a percentage
\* between 0 and 100.
C9_PercentageInRange ==
    \A s \in StreamIds : \A k \in 1..Len(stream[s].out) :
        stream[s].out[k].event = "progress" =>
            /\ ~ IsNone(stream[s].out[k].percentage)
            /\ Val(stream[s].out[k].percentage) >= 0
            /\ Val(stream[s].out[k].percentage) <= 100

\* a stream that has delivered events polls a task whose downloaded byte
\* count has passed the estimated total
C9_Witness ==
    \E s \in StreamIds :
        /\ Len(stream[s].out) > 0
        /\ stream[s].at = "raised"
        /\ Val(tasks[stream[s].task_id].percentage) > 100

\* C10 as stated: a poll of a registered task yields an event exactly when
\* the sampled status differs from the last yielded one or is downloading.
C10_EmitsExactlyWhenShouldSend ==
    [][\A s \in StreamIds :
          (Poll(s) /\ stream[s].task_id \in DOMAIN tasks) =>
                (ShouldSend(tasks[stream[s].task_id].status, stream[s].last_status)
                    <=> Len(stream'[s].out) = Len(stream[s].out) + 1)]_vars

\* a progress event whose status is finished or error
IsTerminalNote(e) == e.event = "progress" /\ e.status \in Terminal

TerminalNotes(out) == { k \in 1..Len(out) : IsTerminalNote(out[k]) }

\* C11 as stated: a poll that samples status finished or error yields the
\* event of that status and the generator goes on to its final sleep; the
\* events of a stream hold at most one terminal event, and it is the last.
C11_TerminalEmittedThenStop ==
    [][\A s \in StreamIds :
          /\ (Poll(s) /\ stream[s].task_id \in DOMAIN tasks
                /\ tasks[stream[s].task_id].status \in Terminal) =>
                  /\ Len(stream'[s].out) = Len(stream[s].out) + 1
                  /\ stream'[s].out[Len(stream'[s].out)].status
                        = tasks[stream[s].task_id].status
                  /\ stream'[s].at = "grace"
          /\ Cardinality(TerminalNotes(stream'[s].out)) <= 1
          /\ TerminalNotes(stream'[s].out) \subseteq {Len(stream'[s].out)}]_vars

\* The part of C11 that holds: at most one terminal event per stream, none
\* after it, and a stream that yielded one no longer polls.
C11_AtMostOneTerminal ==
    \A s \in StreamIds :
        /\ Cardinality(TerminalNotes(stream[s].out)) <= 1
        /\ TerminalNotes(stream[s].out) \subseteq {Len(stream[s].out)}
        /\ TerminalNotes(stream[s].out) # {} => stream[s].at \in {"grace", "closed"}

HasNotFound(out) == \E k \in 1..Len(out) : out[k].event = "error"

\* C12: a poll for a task id that is not in the registry yields exactly the
\* "Task not found" event and ends the generator; a stream that has yielded
\* it yields nothing more, whatever is registered afterwards.
C12_NotFoundOnceThenStop ==
    [][\A s \in StreamIds :
          /\ (Poll(s) /\ stream[s].task_id \notin DOMAIN tasks) =>
                  /\ stream'[s].out = Append(stream[s].out, NotFoundEvent)
                  /\ stream'[s].at = "closed"
          /\ HasNotFound(stream[s].out) => stream'[s] = stream[s]
          /\ HasNotFound(stream'[s].out) => stream'[s].out = <<NotFoundEvent>>]_vars

\* the stream ended with the one error event, and the id it asked for was
\* registered and ran to its end afterwards
C12_Witness ==
    \E s \in StreamIds :
        /\ stream[s].out = <<NotFoundEvent>>
        /\ stream[s].at = "closed"
        /\ stream[s].task_id \in DOMAIN tasks
        /\ pc[stream[s].task_id] = "done"

\* the names a task's own fetch accounts for: the name download_audio
\* expects and the name of the file the fetch wrote
OwnNames(i) ==
    {result[i].filename} \cup
    (IF IsNone(result[i].produced) THEN {} ELSE {Val(result[i].produced)})

\* C13 as stated: every progress event of a stream carries the stream's task
\* id and the fields of that task's entry; no step of another task (its
\* submission, its body, its hook events) changes the entry or the stream;
\* and the output name a body finalizes is a name of its own fetch, whatever
\* other tasks submitted, reported or completed.
C13_StreamsIsolated ==
    [][/\ \A s \in StreamIds :
            (Len(stream'[s].out) = Len(stream[s].out) + 1
                /\ stream'[s].out[Len(stream'[s].out)].event = "progress") =>
                  /\ stream'[s].out[Len(stream'[s].out)].task_id = stream[s].task_id
                  /\ stream'[s].out[Len(stream'[s].out)]
                        = ProgressUpdate(stream[s].task_id, tasks[stream[s].task_id])
       /\ \A i \in DOMAIN tasks :
            /\ \A j \in TaskIds \ {i} :
                    (pc'[j] # pc[j] \/ nev'[j] # nev[j]) =>
                        (tasks'[i] = tasks[i] /\ \A s \in StreamIds :
                            stream[s].task_id = i => stream'[s] = stream[s])
            /\ (tasks'[i].has_result /\ ~ tasks[i].has_result) =>
                    Val(tasks'[i].filename) \in OwnNames(i)]_vars

\* The parts of C13 that hold: progress events carry the stream's task id and
\* the fields of that task's entry, and no step of another task changes the
\* entry or the stream.
C13_OthersLeaveEntryAndStream ==
    [][/\ \A s \in StreamIds :
            (Len(stream'[s].out) = Len(stream[s].out) + 1
                /\ stream'[s].out[Len(stream'[s].out)].event = "progress") =>
                  /\ stream'[s].out[Len(stream'[s].out)].task_id = stream[s].task_id
                  /\ stream'[s].out[Len(stream'[s].out)]
                        = ProgressUpdate(stream[s].task_id, tasks[stream[s].task_id])
       /\ \A i \in DOMAIN tasks : \A j \in TaskIds \ {i} :
            (pc'[j] # pc[j] \/ nev'[j] # nev[j]) =>
                (tasks'[i] = tasks[i] /\ \A s \in StreamIds :
                    stream[s].task_id = i => stream'[s] = stream[s])]_vars

\* C14: the id an accepted start_download call answers with is not an id of
\* the registry before the call, it is one after it, every entry the
\* registry had is left as it was, and the ids of the scheduled bodies are
\* exactly the ids of the registry.
C14_FreshTaskIds ==
    [][\A url \in ValidUrls :
          start_download(url) =>
              /\ response'.code = 200
              /\ response'.task_id \notin DOMAIN tasks
              /\ DOMAIN tasks' = DOMAIN tasks \cup {response'.task_id}
              /\ \A i \in DOMAIN tasks : tasks'[i] = tasks[i] /\ pc'[i] = pc[i]
              /\ pc[response'.task_id] = "none"]_vars

\* a second submission is accepted while the body of the first is suspended
\* in its history insert
C14_Witness ==
    /\ Len(tasks) = 2
    /\ response = Response(200, 2)
    /\ pc[1] = "insert"
    /\ pc[2] = "scheduled"
    /\ tasks[1].status = "downloading"
    /\ tasks[2] = NewTask(tasks[2].url)

\* C15 as stated: while download_audio runs for a task, a stream of that
\* task that is between two polls can take its next poll.
C15_StreamerPollsDuringFetch ==
    \A s \in StreamIds :
        (/\ stream[s].at = "poll"
         /\ Len(stream[s].out) < MaxNotes
         /\ stream[s].task_id \in DOMAIN tasks
         /\ pc[stream[s].task_id] = "fetching") => ENABLED Poll(s)

\* C16 as stated: the engine's last report for a task was 50 percent, its
\* body finalized it with the output name song.mp3, and a stream that was
\* attached before the body started (its first event shows the task pending
\* or at 0 percent) has ended with a terminal event: the stream's events are
\* exactly downloading (0 or no percentage), downloading (50), finished
\* (song.mp3).
C16_ScenarioSequence ==
    \A s \in StreamIds :
        (/\ stream[s].at = "closed"
         /\ TerminalNotes(stream[s].out) # {}
         /\ stream[s].task_id \in DOMAIN tasks
         /\ pc[stream[s].task_id] = "done"
         /\ tasks[stream[s].task_id].has_result
         /\ tasks[stream[s].task_id].percentage = Some(50)
         /\ tasks[stream[s].task_id].filename = Some(<<"song", ".mp3">>)
         /\ Len(stream[s].out) >= 1
         /\ stream[s].out[1].event = "progress"
         /\ stream[s].out[1].status \in {"pending", "downloading"}
         /\ stream[s].out[1].percentage = Some(0))
        =>
        (/\ Len(stream[s].out) = 3
         /\ stream[s].out[1].status = "downloading"
         /\ stream[s].out[1].percentage \in {None, Some(0)}
         /\ stream[s].out[2].status = "downloading"
         /\ stream[s].out[2].percentage = Some(50)
         /\ stream[s].out[3].status = "finished"
         /\ stream[s].out[3].filename = Some(<<"song", ".mp3">>))

\* the fields of event e are those of the registry entry task
SameFields(e, task) ==
    /\ e.status = task.status
    /\ e.percentage = task.percentage
    /\ e.downloaded = task.downloaded
    /\ e.total = task.total
    /\ e.speed = task.speed
    /\ e.filename = task.filename
    /\ e.message = task.message

\* C17: every progress event a poll yields has all its fields from the one
\* registry state the poll ran in, and no write to the registry happens
\* within the poll.
C17_NoTornRead ==
    [][\A s \in StreamIds :
          (Len(stream'[s].out) = Len(stream[s].out) + 1
              /\ stream'[s].out[Len(stream'[s].out)].event = "progress") =>
                /\ SameFields(stream'[s].out[Len(stream'[s].out)], tasks[stream[s].task_id])
                /\ tasks' = tasks]_vars

\* a stream polled a task pending, and again after the body's start update
\* and the engine's 50 percent report, while the body awaits its insert
C17_Witness ==
    \E s \in StreamIds :
        /\ Len(stream[s].out) = 2
        /\ stream[s].out[1].status = "pending"
        /\ stream[s].out[1].message = Some(<<"Task created">>)
        /\ stream[s].out[2].status = "downloading"
        /\ stream[s].out[2].percentage = Some(50)
        /\ stream[s].out[2].message = Some(EmptyStr)
        /\ pc[stream[s].task_id] = "insert"

\* C18: the engine calls the hook only while download_audio runs; the body's
\* last write to its task is the finalization or the except branch, which
\* leaves a terminal status; and nothing writes to the task after it.
C18_TerminalWriteIsLast ==
    [][\A i \in DOMAIN tasks :
          /\ nev'[i] > nev[i] => (pc[i] = "fetching" /\ pc'[i] = "fetching")
          /\ (pc'[i] = "done" /\ pc[i] # "done") => tasks'[i].status \in Terminal
          /\ pc[i] = "done" => (tasks'[i] = tasks[i] /\ pc'[i] = "done")]_vars

\* the callback stored the engine's 50 percent report, then the fetch raised
\* and the except branch wrote the task's last state
C18_Witness ==
    \E i \in DOMAIN tasks :
        /\ pc[i] = "done"
        /\ tasks[i].status = "error"
        /\ tasks[i].percentage = Some(50)
        /\ tasks[i].downloaded = Some(_format_bytes(1))
        /\ tasks[i].error = Some(YtDlpErrorMsg(EmptyStr))

\* C19 as stated: a hook event whose progress_info omits a field leaves the
\* value the task has stored for that field as it was.
C19_UpdateMergesSuppliedFields ==
    [][\A i \in DOMAIN tasks : \A d \in HookDicts :
          (HookEvent(i, d) /\ ~ IsNone(hook(d))) =>
              /\ IsNone(Val(hook(d)).percentage) => tasks'[i].percentage = tasks[i].percentage
              /\ IsNone(Val(hook(d)).downloaded) => tasks'[i].downloaded = tasks[i].downloaded
              /\ IsNone(Val(hook(d)).total) => tasks'[i].total = tasks[i].total
              /\ IsNone(Val(hook(d)).speed) => tasks'[i].speed = tasks[i].speed
              /\ IsNone(Val(hook(d)).filename) => tasks'[i].filename = tasks[i].filename
              /\ IsNone(Val(hook(d)).message) => tasks'[i].message = tasks[i].message]_vars

\* a label that is absent or the empty string
NoLabel(o) == IsNone(o) \/ Len(Val(o)) = 0

\* C20 as stated: a task whose status is pending, finished or error has no
\* downloaded, total or speed label.
C20_LabelsOnlyWhileRunning ==
    \A i \in DOMAIN tasks :
        tasks[i].status # "downloading" =>
            /\ NoLabel(tasks[i].downloaded)
            /\ NoLabel(tasks[i].total)
            /\ NoLabel(tasks[i].speed)

\* C21: a failure of extract_metadata or of save_metadata does not end the
\* body: the task is left as it was and the body goes on to the artifact
\* resolution and the insert; and every body that finalizes its task with
\* status finished has inserted its row, whatever the metadata calls did.
C21_EnrichmentFailureSwallowed ==
    [][\A i \in DOMAIN tasks :
          /\ \A outcome \in {"save_failed", "extract_failed"},
                duration \in Durations, video_id \in VideoIds :
                Enrich(i, outcome, duration, video_id) =>
                    /\ tasks'[i] = tasks[i]
                    /\ pc'[i] = "enriched"
                    /\ loop' = i
          /\ pc[i] = "fetched" => pc'[i] \in {"fetched", "enriched"}
          /\ (tasks'[i].has_result /\ ~ tasks[i].has_result) =>
                (tasks'[i].status = "finished" /\ Cardinality(Records(i)) = 1)]_vars

\* extract_metadata raised (the row has neither duration nor video id), the
\* row was inserted and the body finalized the task
C21_Witness ==
    \E i \in DOMAIN tasks :
        /\ pc[i] = "done"
        /\ tasks[i].status = "finished"
        /\ tasks[i].has_result
        /\ \E k \in Records(i) :
              IsNone(history[k].duration) /\ IsNone(history[k].video_id)

\* C22 as stated: a row written when neither the expected file nor any mp3
\* file was found (it has no file size) has an empty file name, and so has
\* the task its body finalized.
C22_MissingArtifactLeavesNameEmpty ==
    \A k \in 1..Len(history) :
        IsNone(history[k].file_size) =>
            /\ Len(history[k].filename) = 0
            /\ (pc[history[k].task] = "done" /\ tasks[history[k].task].has_result) =>
                    /\ tasks[history[k].task].status = "finished"
                    /\ NoLabel(tasks[history[k].task].filename)

\* C23 as stated: a row written after extract_metadata failed (it has
\* neither duration nor video id) has the title "Unknown".
C23_TitleUnknownWhenEnrichmentFailed ==
    \A k \in 1..Len(history) :
        (IsNone(history[k].duration) /\ IsNone(history[k].video_id)) =>
            history[k].title = Some(<<"Unknown">>)

\* C23 amended: the title of a row is the title download_audio returned for
\* the fetch, whether the metadata calls failed or not; a failed
\* extract_metadata only leaves the row without duration and video id.
C23_TitleIsFetchTitle ==
    [][\A i \in DOMAIN tasks :
          (HasRecord(i)' /\ ~ HasRecord(i)) =>
              /\ history' = Append(history, history'[Len(history')])
              /\ history'[Len(history')].task = i
              /\ history'[Len(history')].title = result[i].title
              /\ history'[Len(history')].title \in InfoTitles
              /\ history'[Len(history')].duration = computed[i].duration_formatted
              /\ history'[Len(history')].video_id = computed[i].video_id]_vars

\* a row written after extract_metadata failed carries the fetch's title
C23_Witness ==
    \E k \in 1..Len(history) :
        /\ IsNone(history[k].duration)
        /\ IsNone(history[k].video_id)
        /\ history[k].title = Some(<<"song">>)

\* C24: no step removes an entry from the registry, so a task is in it while
\* it is pending or downloading and stays in it afterwards; the id keeps
\* naming the same submission.
C24_NeverEvicted ==
    [][\A i \in DOMAIN tasks :
          /\ i \in DOMAIN tasks'
          /\ tasks'[i].url = tasks[i].url]_vars

\* a stream has yielded its terminal event and ended after its delay; its
\* task is still registered, and so is a task whose body is still running
C24_Witness ==
    \E s \in StreamIds :
        /\ stream[s].at = "closed"
        /\ TerminalNotes(stream[s].out) # {}
        /\ stream[s].task_id \in DOMAIN tasks
        /\ pc[stream[s].task_id] = "done"
        /\ \E j \in DOMAIN tasks : tasks[j].status = "downloading" /\ pc[j] = "insert"

\* C25: a step of a stream (opening, a poll with or without an event, the
\* end after the delay, a disconnect) changes nothing but that stream: not
\* the registry, the history, the bodies' positions and locals, the hook
\* events of a fetch, or the files.
C25_StreamersReadOnly ==
    [][stream' # stream =>
          /\ UNCHANGED <<tasks, response, history, pc, loop, nev, result, computed,
                         artifact, files>>
          /\ \E s \in StreamIds : \A t \in StreamIds \ {s} : stream'[t] = stream[t]]_vars

\* the observer disconnected before any terminal event while the body was
\* suspended in its insert; the body went on and finalized the task
C25_Witness ==
    \E s \in StreamIds :
        /\ stream[s].at = "closed"
        /\ Len(stream[s].out) > 0
        /\ TerminalNotes(stream[s].out) = {}
        /\ stream[s].out[Len(stream[s].out)].status = "downloading"
        /\ pc[stream[s].task_id] = "done"
        /\ tasks[stream[s].task_id].status = "finished"
        /\ HasRecord(stream[s].task_id)

\* the fields of a string between its colons
RECURSIVE Fields(_)
Fields(str) ==
    IF \A k \in 1..Len(str) : str[k] # ":"
    THEN <<str>>
    ELSE <<SubSeq(str, 1, (CHOOSE k \in 1..Len(str) :
                              str[k] = ":" /\ \A j \in 1..(k - 1) : str[j] # ":") - 1)>>
         \o Fields(SubSeq(str, (CHOOSE k \in 1..Len(str) :
                              str[k] = ":" /\ \A j \in 1..(k - 1) : str[j] # ":") + 1,
                          Len(str)))

DigitValue(c) == CHOOSE v \in 0..9 : DigitChars[v + 1] = c

IsNumeral(str) ==
    Len(str) > 0 /\ \A k \in 1..Len(str) : \E v \in 0..9 : DigitChars[v + 1] = str[k]

\* int(str) of a decimal numeral
RECURSIVE ToNat(_)
ToNat(str) ==
    IF Len(str) = 0 THEN 0
    ELSE 10 * ToNat(SubSeq(str, 1, Len(str) - 1)) + DigitValue(str[Len(str)])

\* a numeral of n padded with zeros to two digits
IsPad2Of(str, n) ==
    /\ IsNumeral(str)
    /\ ToNat(str) = n
    /\ Len(str) >= 2
    /\ (n < 100 => Len(str) = 2)

\* C26: for s < 3600 the value of _format_duration(s) is MM:SS, otherwise
\* HH:MM:SS, with HH = s div 3600, MM = (s mod 3600) div 60, SS = s mod 60,
\* each a numeral padded to two digits; MM and SS are below 60 and the
\* fields give s back.
C26_FormatDuration ==
    (call.fn = "_format_duration" /\ ~ IsNone(call.ret)) =>
        /\ call.seconds < 3600 =>
              /\ Len(Fields(Val(call.ret))) = 2
              /\ IsPad2Of(Fields(Val(call.ret))[1], (call.seconds % 3600) \div 60)
              /\ IsPad2Of(Fields(Val(call.ret))[2], call.seconds % 60)
              /\ ToNat(Fields(Val(call.ret))[1]) < 60
              /\ ToNat(Fields(Val(call.ret))[2]) < 60
              /\ 60 * ToNat(Fields(Val(call.ret))[1]) + ToNat(Fields(Val(call.ret))[2])
                    = call.seconds
        /\ call.seconds >= 3600 =>
              /\ Len(Fields(Val(call.ret))) = 3
              /\ IsPad2Of(Fields(Val(call.ret))[1], call.seconds \div 3600)
              /\ IsPad2Of(Fields(Val(call.ret))[2], (call.seconds % 3600) \div 60)
              /\ IsPad2Of(Fields(Val(call.ret))[3], call.seconds % 60)
              /\ ToNat(Fields(Val(call.ret))[2]) < 60
              /\ ToNat(Fields(Val(call.ret))[3]) < 60
              /\ 3600 * ToNat(Fields(Val(call.ret))[1]) + 60 * ToNat(Fields(Val(call.ret))[2])
                    + ToNat(Fields(Val(call.ret))[3]) = call.seconds

\* 3661 seconds: one hour, one minute, one second
C26_Witness ==
    /\ call.fn = "_format_duration"
    /\ call.seconds = 3661
    /\ call.ret = Some(<<"0", "1", ":", "0", "1", ":", "0", "1">>)

\* C27: the value of _sanitize_filename(f) is f cut to its first 100
\* characters with each of < > : " / \ | ? * replaced by an underscore and
\* every other character kept; it holds no such character, is at most 100
\* characters long, and sanitizing it again gives it back.
C27_SanitizeFilename ==
    (call.fn = "_sanitize_filename" /\ ~ IsNone(call.ret)) =>
        /\ Len(Val(call.ret)) = IF Len(call.filename) > 100 THEN 100 ELSE Len(call.filename)
        /\ \A k \in 1..Len(Val(call.ret)) :
              /\ call.filename[k] \in {"<", ">", ":", "\"", "/", "\\", "|", "?", "*"}
                    => Val(call.ret)[k] = "_"
              /\ call.filename[k] \notin {"<", ">", ":", "\"", "/", "\\", "|", "?", "*"}
                    => Val(call.ret)[k] = call.filename[k]
              /\ Val(call.ret)[k] \notin {"<", ">", ":", "\"", "/", "\\", "|", "?", "*"}
        /\ Len(Val(call.ret)) <= 100
        /\ _sanitize_filename(Val(call.ret)) = Val(call.ret)

\* a name of 102 characters that starts with two invalid ones
C27_Witness ==
    /\ call.fn = "_sanitize_filename"
    /\ Len(call.filename) = 102
    /\ call.filename[1] = "<"
    /\ call.filename[2] = "?"
    /\ call.ret = Some(<<"_", "_">> \o Rep("a", 98))

\* C28 as stated: once a stream has yielded an event with status finished or
\* error, the task's status and filename in the registry are, and stay, the
\* ones of that event.
C28_TerminalNoteIsFinal ==
    \A s \in StreamIds : \A k \in TerminalNotes(stream[s].out) :
        /\ tasks[stream[s].task_id].status = stream[s].out[k].status
        /\ tasks[stream[s].task_id].filename = stream[s].out[k].filename

\* C29 as stated, its safety half: no state of a registered task makes a
\* poll of its stream end the generator by an exception, before the terminal
\* event was delivered.
C29_StreamNeverAborts ==
    \A s \in StreamIds :
        stream[s].at = "raised" => TerminalNotes(stream[s].out) # {}

\* C30: under the scheduling of LiveSpec the body of every accepted task
\* comes to its end, it ends with the task's status finished or error, and
\* the status stays as the body left it.
C30_EveryTaskEndsTerminal ==
    /\ \A i \in TaskIds :
          (pc[i] = "scheduled") ~> (pc[i] = "done" /\ tasks[i].status \in Terminal)
    /\ [][\A i \in DOMAIN tasks :
            /\ (pc'[i] = "done" /\ pc[i] # "done") => tasks'[i].status \in Terminal
            /\ pc[i] = "done" =>
                  (pc'[i] = "done" /\ tasks'[i].status = tasks[i].status)]_vars

\* two accepted tasks have both ended, one finished and one failed
C30_Witness ==
    /\ Len(tasks) = 2
    /\ pc[1] = "done"
    /\ pc[2] = "done"
    /\ tasks[1].status = "finished"
    /\ tasks[2].status = "error"

====
